---- MODULE Spec2Model ----
(***************************************************************************)
(* Model of the database access core of Archon:                            *)
(*   - AsyncPGClient (services/database/asyncpg_client.py): the shared     *)
(*     pool handle, the initialization lock, get_pool, connection, the     *)
(*     query methods and close;                                            *)
(*   - get_database_mode (services/client_manager.py): the memoized        *)
(*     backend selection;                                                  *)
(*   - BaseSearchStrategy.vector_search (services/search/                  *)
(*     base_search_strategy.py) and row_to_dict (utils/type_converters.py),*)
(*     two callers' helpers on top of the query surface.                   *)
(* Callers are asyncio tasks: a step of the model is the code a task runs  *)
(* between two suspension points (an await that really suspends).          *)
(***************************************************************************)
EXTENDS Integers, Sequences, FiniteSets, TLC

\* ------------------------------------------------------------ bounds
\* Number of concurrent caller tasks of the pool specification.
NumTasks == 2
\* Cap on the number of asyncpg.create_pool invocations in one behaviour.
MaxPools == 2
\* Number of concurrent fetch calls of the saturation scenario.
NumCallers == 15
\* Largest number of rows a statement yields.
MaxRows == 1
\* Largest number of candidate rows the matching function returns.
MaxCands == 5
\* Number of distinct values of each column type in a row handed to row_to_dict.
MaxVal == 2
\* Number of project ids.
MaxProjects == 2
\* Cap on the number of version rows written in one behaviour.
MaxVersions == 3
\* Cap on the number of documents added in one behaviour.
MaxDocs == 2

\* ------------------------------------------------------------ constants
\* max_size=10 handed to asyncpg.create_pool.
MAX_SIZE == 10
\* SIMILARITY_THRESHOLD = 0.05; similarities are counted in hundredths.
SIMILARITY_THRESHOLD == 5

None == 0

VARIABLES
    env,            \* os.environ: variable name -> "unset" | "empty" | "value"
    database_mode,  \* client_manager._database_mode: "None" | "asyncpg" | "supabase"
    modeCall,       \* outcome of the last get_database_mode call
    cls_pool,       \* AsyncPGClient._pool: None or the id of a pool
    cls_lock,       \* AsyncPGClient._lock: [locked, waiters]
    created,        \* number of asyncpg.create_pool invocations so far
    poolState,      \* pool id -> "none" | "open" | "closing" | "closed"
    poolSource,     \* pool id -> "none" | "discrete" | "url": arguments it was built from
    checkedOut,     \* pool id -> number of connections the pool has handed out
    acqQueue,       \* pool id -> FIFO of tasks suspended in pool.acquire()
    closeDone,      \* pools on which a close() call of AsyncPGClient has completed
    task,           \* task id -> the call it is running (or has last run)
    search,         \* the BaseSearchStrategy object and its vector_search call
    conv,           \* the row_to_dict call: its argument and what it returned
    rpc,            \* the arguments the two vector search paths hand to the database
    projects,       \* table archon_projects: project id -> row
    versions,       \* table archon_document_versions: the rows, in insertion order
    svc,            \* task id -> the project service call it is running (or has last run)
    ledger          \* history: the document calls that have returned success

vars == <<env, database_mode, modeCall, cls_pool, cls_lock, created, poolState,
          poolSource, checkedOut, acqQueue, closeDone, task, search, conv, rpc,
          projects, versions, svc, ledger>>

modeVars == <<database_mode, modeCall>>
tableVars == <<projects, versions, svc, ledger>>
serviceVars == <<search, conv, rpc, tableVars>>
poolVars == <<cls_pool, cls_lock, created, poolState, poolSource, checkedOut,
              acqQueue, closeDone, task>>

EnvNames == {"DATABASE_URL", "POSTGRES_HOST", "SUPABASE_URL", "SUPABASE_SERVICE_KEY"}
EnvValues == {"unset", "empty", "value"}
PoolIds == 1..MaxPools
Procs == DOMAIN task

QueryOps == {"fetch", "fetchrow", "fetchval", "execute", "executemany"}
\* The calls of the pool specification: the two lifecycle methods and one query method.
LifecycleOps == {"get_pool", "close", "fetch"}

\* Python truthiness of os.getenv(name): None and "" are falsy.
Truthy(e, name) == e[name] = "value"

\* ------------------------------------------------------------ get_database_mode
\* (variant: the hosted credentials are tested before the connection string)
SelectMode_HostedFirst(e) ==
    IF Truthy(e, "SUPABASE_URL") /\ Truthy(e, "SUPABASE_SERVICE_KEY") THEN "supabase"
    ELSE IF Truthy(e, "DATABASE_URL") THEN "asyncpg"
    ELSE "ValueError"

\* The value the first call computes from the environment, or the error.
SelectMode(e) ==
    IF Truthy(e, "DATABASE_URL") THEN "asyncpg"
    ELSE IF Truthy(e, "SUPABASE_URL") /\ Truthy(e, "SUPABASE_SERVICE_KEY") THEN "supabase"
    ELSE "ValueError"

\* The options named by the text of the ValueError get_database_mode raises.
ModeErrorMentions == {"DATABASE_URL", "SUPABASE_URL", "SUPABASE_SERVICE_KEY"}

NoModeCall ==
    [ret |-> "nocall", inspected |-> FALSE, first |-> "None", mentions |-> {},
     failed |-> FALSE]

\* (variant: every call resolves the mode again)
IsUnresolved_Always(mode) == TRUE

\* `if _database_mode is None`: nothing is memoized yet.
IsUnresolved(mode) == mode = "None"

\* (variant: the outcome of the selection is stored also when it is the error)
MemoizeMode_Always(sel) == sel

\* What the module global holds after a call that found it unset.
MemoizeMode(sel) == IF sel = "ValueError" THEN "None" ELSE sel

\* get_database_client(): the pooled client class when DATABASE_URL is set, else
\* a ValueError.
get_database_client(e) == IF Truthy(e, "DATABASE_URL") THEN "AsyncPGClient" ELSE "ValueError"

\* The body of get_database_mode(), as run by any caller of it.
ResolveMode ==
    /\ IF IsUnresolved(database_mode)
       THEN LET sel == SelectMode(env) IN
            /\ database_mode' = MemoizeMode(sel)
            /\ modeCall' = [ret |-> sel, inspected |-> TRUE,
                            first |-> IF modeCall.first = "None" /\ sel # "ValueError"
                                      THEN sel ELSE modeCall.first,
                            mentions |-> IF sel = "ValueError" THEN ModeErrorMentions ELSE {},
                            failed |-> modeCall.failed \/ sel = "ValueError"]
       ELSE /\ database_mode' = database_mode
            /\ modeCall' = [modeCall EXCEPT !.ret = database_mode, !.inspected = FALSE,
                                            !.mentions = {}]

\* One call of get_database_mode().
get_database_mode ==
    /\ ResolveMode
    /\ UNCHANGED <<env, poolVars, serviceVars>>

\* The process environment is changed (os.environ[name] = ..., del os.environ[name]).
SetEnv ==
    /\ \E n \in EnvNames, v \in EnvValues :
          /\ env[n] # v
          /\ env' = [env EXCEPT ![n] = v]
    /\ UNCHANGED <<modeVars, poolVars, serviceVars>>

\* ------------------------------------------------------------ AsyncPGClient state
\* A task that runs no call, or the fresh frame of a call of `op`.
\*   pool: the handle the frame works on (the pool under construction, the `pool`
\*         local of connection(), the pool close() called close() on)
\*   conn: the pool whose connection the frame holds, or None
\*   res:  the returned value (a pool handle for get_pool, "ok" for a query,
\*         None for close); err: the exception raised; mentions: what its text names
\*   out:  the value a query method returned, [kind, n] (n: how many rows it holds)
\*   born, sawNone, clean: history of a get_pool call (the create_pool invocations
\*         that had ended when it started, whether it found the handle unset,
\*         whether no close and no failed or cancelled creation happened since)
NoResult == [kind |-> "none", n |-> 0]

Frame(op) ==
    [op |-> op, pc |-> "idle", pool |-> None, conn |-> None, res |-> None,
     err |-> "", mentions |-> {}, born |-> 0, sawNone |-> FALSE, clean |-> TRUE,
     out |-> NoResult]

Finished(rec) == rec.pc \in {"idle", "returned", "raised"}

Return(rec, value) ==
    [rec EXCEPT !.pc = "returned", !.res = value, !.conn = None, !.pool = None]
Raise(rec, kind, names) ==
    [rec EXCEPT !.pc = "raised", !.err = kind, !.mentions = names, !.conn = None,
                !.pool = None]

\* (variant: get_pool does not test the configuration before it connects)
PoolConfigured_Unchecked(e) == TRUE

\* `if not database_url and not postgres_host` is false.
PoolConfigured(e) == Truthy(e, "DATABASE_URL") \/ Truthy(e, "POSTGRES_HOST")

\* The options named by the text of the ValueError get_pool raises.
PoolErrorMentions == {"DATABASE_URL", "POSTGRES_*"}

\* (variant: the discrete fields are used only when there is no connection string)
PoolArguments_UrlFirst(e) == IF Truthy(e, "DATABASE_URL") THEN "url" ELSE "discrete"

\* Which arguments create_pool is called with: `if postgres_host: ... else: ...`.
PoolArguments(e) == IF Truthy(e, "POSTGRES_HOST") THEN "discrete" ELSE "url"

\* What can go wrong inside the `try:` of get_pool: the host cannot be reached, the
\* server refuses the credentials, int(POSTGRES_PORT) fails.
CreationFailures == {"OSError", "InvalidPasswordError", "ValueError"}

\* (variant: no `except Exception`, the driver's exception reaches the caller)
WrapCreationError_Propagated(cause) == cause

\* `except Exception as e: raise ConnectionError(...) from e`.
WrapCreationError(cause) == "ConnectionError"

\* (variant: the handle is not checked again once the lock is held)
Recheck_Skipped(handle) == TRUE

\* `if cls._pool is None` of the double check, evaluated with the lock held.
Recheck(handle) == handle = None

\* (variant: the lock stays held when the block is left)
Unlocked_StillHeld(waiters) == [locked |-> TRUE, waiters |-> waiters]

\* asyncio.Lock.release(): the lock is free again; the first waiter runs when scheduled.
Unlocked(waiters) == [locked |-> FALSE, waiters |-> waiters]

\* (variant: the pool hands out connections without a limit)
CanAcquire_Unbounded(n) == TRUE

\* pool.acquire() hands out a connection while fewer than max_size are out.
CanAcquire(n) == n < MAX_SIZE

\* (variants: the connection is released by a plain statement after the query, which
\* an exception skips; or the release is skipped by an error, or by a cancellation)
ExitConnection_OnReturnOnly(co, p, how) ==
    IF how = "return" THEN [co EXCEPT ![p] = @ - 1] ELSE co
ExitConnection_NotOnError(co, p, how) ==
    IF how = "error" THEN co ELSE [co EXCEPT ![p] = @ - 1]
ExitConnection_NotOnCancel(co, p, how) ==
    IF how = "cancel" THEN co ELSE [co EXCEPT ![p] = @ - 1]

\* Leaving `async with pool.acquire() as conn` (how: "return", "error", "cancel"):
\* the connection goes back to the pool on every exit path.
ExitConnection(co, p, how) == [co EXCEPT ![p] = @ - 1]

\* (variant: close() calls cls._pool.close() without testing the handle)
HasPool_Unchecked(handle) == TRUE

\* `if cls._pool:` of close(): there is a pool to close.
HasPool(handle) == handle # None

\* (variant: close() leaves the handle as it is)
HandleAfterClose_Kept(handle) == handle

\* `cls._pool = None` once pool.close() has returned.
HandleAfterClose(handle) == None

\* (variant: the new pool is bound to a local name, the class attribute is not set)
HandleAfterCreate_Local(handle, p) == handle

\* `cls._pool = await asyncpg.create_pool(...)`.
HandleAfterCreate(handle, p) == p

\* A history event that ends the "undisturbed" period of the running get_pool calls.
Disturb(tk) ==
    [u \in DOMAIN tk |-> IF tk[u].op = "get_pool" THEN [tk[u] EXCEPT !.clean = FALSE]
                         ELSE tk[u]]

\* get_pool has produced the handle p for the frame rec of task t. A get_pool call
\* returns it; connection() goes on to `async with pool.acquire()`, which refuses a
\* pool that is closing or closed and otherwise queues for a connection.
ReturnPool(t, rec, p, state, tk) ==
    IF rec.op = "get_pool"
    THEN /\ task' = [tk EXCEPT ![t] = Return(rec, p)]
         /\ UNCHANGED acqQueue
    ELSE IF p = None            \* None has no acquire()
    THEN /\ task' = [tk EXCEPT ![t] = Raise(rec, "AttributeError", {})]
         /\ UNCHANGED acqQueue
    ELSE IF state # "open"
    THEN /\ task' = [tk EXCEPT ![t] = Raise(rec, "InterfaceError", {})]
         /\ UNCHANGED acqQueue
    ELSE /\ task' = [tk EXCEPT ![t] = [rec EXCEPT !.pc = "acquiring", !.pool = p]]
         /\ acqQueue' = [acqQueue EXCEPT ![p] = Append(@, t)]

\* The body of `async with cls._lock:` up to its first suspension, run by task t
\* with the lock held; waiters is the rest of the lock's wait queue.
GetPoolLocked(t, rec, waiters) ==
    IF ~Recheck(cls_pool)
    THEN /\ cls_lock' = Unlocked(waiters)
         /\ ReturnPool(t, rec, cls_pool, poolState[cls_pool], task)
         /\ UNCHANGED <<created, poolSource>>
    ELSE IF ~PoolConfigured(env)
    THEN /\ cls_lock' = Unlocked(waiters)
         /\ task' = [task EXCEPT ![t] = Raise(rec, "ValueError", PoolErrorMentions)]
         /\ UNCHANGED <<created, poolSource, acqQueue>>
    ELSE /\ created < MaxPools
         /\ created' = created + 1
         /\ cls_lock' = [locked |-> TRUE, waiters |-> waiters]
         /\ poolSource' = [poolSource EXCEPT ![created + 1] = PoolArguments(env)]
         /\ task' = [task EXCEPT ![t] = [rec EXCEPT !.pc = "creating", !.pool = created + 1]]
         /\ UNCHANGED acqQueue

\* The create_pool invocations that have returned, raised or been cancelled.
EndedCreations ==
    IF \E u \in Procs : task[u].pc = "creating" THEN created - 1 ELSE created

\* get_pool up to its first suspension, for the fresh frame rec of task t.
EnterGetPool(t, rec0) ==
    LET rec == IF rec0.op = "get_pool"
               THEN [rec0 EXCEPT !.born = EndedCreations, !.sawNone = (cls_pool = None)]
               ELSE rec0 IN
    IF cls_pool # None
    THEN /\ ReturnPool(t, rec, cls_pool, poolState[cls_pool], task)
         /\ UNCHANGED <<cls_lock, created, poolSource>>
    ELSE IF ~cls_lock.locked /\ cls_lock.waiters = <<>>
    THEN GetPoolLocked(t, rec, <<>>)
    ELSE /\ cls_lock' = [cls_lock EXCEPT !.waiters = Append(@, t)]
         /\ task' = [task EXCEPT ![t] = [rec EXCEPT !.pc = "wait_lock"]]
         /\ UNCHANGED <<created, poolSource, acqQueue>>

\* close() up to its first suspension.
EnterClose(t, rec) ==
    IF ~HasPool(cls_pool)
    THEN /\ task' = [task EXCEPT ![t] = Return(rec, None)]
         /\ UNCHANGED poolState
    ELSE IF cls_pool = None     \* None has no close()
    THEN /\ task' = [task EXCEPT ![t] = Raise(rec, "AttributeError", {})]
         /\ UNCHANGED poolState
    ELSE /\ poolState' = [poolState EXCEPT ![cls_pool] = IF @ = "closed" THEN @ ELSE "closing"]
         /\ task' = [Disturb(task) EXCEPT ![t] = [rec EXCEPT !.pc = "closing", !.pool = cls_pool]]

\* ------------------------------------------------------------ AsyncPGClient steps
\* Task t calls one of the class methods.
Begin(t, ops) ==
    /\ Finished(task[t])
    /\ \E op \in ops :
          IF op = "close"
          THEN /\ EnterClose(t, Frame(op))
               /\ UNCHANGED <<cls_pool, cls_lock, created, poolSource, checkedOut,
                              acqQueue, closeDone>>
          ELSE /\ EnterGetPool(t, Frame(op))
               /\ UNCHANGED <<cls_pool, poolState, checkedOut, closeDone>>
    /\ UNCHANGED <<env, modeVars, serviceVars>>

\* The lock is free and t is the first waiter: t resumes inside `async with cls._lock`.
LockGranted(t) ==
    /\ task[t].pc = "wait_lock"
    /\ ~cls_lock.locked
    /\ cls_lock.waiters # <<>> /\ Head(cls_lock.waiters) = t
    /\ GetPoolLocked(t, task[t], Tail(cls_lock.waiters))
    /\ UNCHANGED <<env, modeVars, serviceVars, cls_pool, poolState, checkedOut, closeDone>>

\* asyncpg.create_pool returns: the handle is set, the lock released, and get_pool
\* returns what the handle holds (`return cls._pool`).
CreateOk(t) ==
    /\ task[t].pc = "creating"
    /\ LET p == task[t].pool IN
          /\ cls_pool' = HandleAfterCreate(cls_pool, p)
          /\ poolState' = [poolState EXCEPT ![p] = "open"]
          /\ cls_lock' = Unlocked(cls_lock.waiters)
          /\ ReturnPool(t, task[t], cls_pool', "open", task)
    /\ UNCHANGED <<env, modeVars, serviceVars, created, poolSource, checkedOut, closeDone>>

\* asyncpg.create_pool raises: `except Exception` turns it into ConnectionError.
CreateFail(t) ==
    /\ task[t].pc = "creating"
    /\ cls_lock' = Unlocked(cls_lock.waiters)
    /\ \E cause \in CreationFailures :
          task' = [Disturb(task) EXCEPT ![t] = Raise(task[t], WrapCreationError(cause), {})]
    /\ UNCHANGED <<env, modeVars, serviceVars, cls_pool, created, poolState, poolSource, checkedOut,
                   acqQueue, closeDone>>

\* pool.acquire() hands task t a connection (waiters are served first come first served).
Acquire(t) ==
    /\ task[t].pc = "acquiring"
    /\ LET p == task[t].pool IN
          /\ Head(acqQueue[p]) = t
          /\ CanAcquire(checkedOut[p])
          /\ acqQueue' = [acqQueue EXCEPT ![p] = Tail(@)]
          /\ checkedOut' = [checkedOut EXCEPT ![p] = @ + 1]
          /\ task' = [task EXCEPT ![t] = [@ EXCEPT !.pc = "holding", !.conn = p]]
    /\ UNCHANGED <<env, modeVars, serviceVars, cls_pool, cls_lock, created, poolState, poolSource,
                   closeDone>>

\* What the driver call of a query method returns for a statement that yields
\* k rows: conn.fetch the records, conn.fetchrow the first record or None,
\* conn.fetchval the first column of the first record or None, conn.execute the
\* status text (it carries the row count), conn.executemany None.
DriverResult(op, k) ==
    CASE op = "fetch"       -> [kind |-> "records", n |-> k]
      [] op = "fetchrow"    -> IF k = 0 THEN [kind |-> "None", n |-> 0]
                                        ELSE [kind |-> "record", n |-> 1]
      [] op = "fetchval"    -> IF k = 0 THEN [kind |-> "None", n |-> 0]
                                        ELSE [kind |-> "value", n |-> 1]
      [] op = "execute"     -> [kind |-> "status", n |-> k]
      [] op = "executemany" -> [kind |-> "None", n |-> 0]

\* (variant: fetchrow converts the row without testing it)
MethodResult_Unguarded(op, d) ==
    CASE op = "fetch"       -> [kind |-> "list", n |-> d.n]
      [] op = "fetchrow"    -> IF d.kind = "record" THEN [kind |-> "dict", n |-> 1]
                                                    ELSE [kind |-> "TypeError", n |-> 0]
      [] op = "executemany" -> [kind |-> "None", n |-> 0]
      [] OTHER              -> d

\* What the query method makes of the driver's result d: fetch
\* `[dict(row) for row in rows]`, fetchrow `dict(row) if row else None`, fetchval
\* and execute return it as it is, executemany has no return statement.
MethodResult(op, d) ==
    CASE op = "fetch"       -> [kind |-> "list", n |-> d.n]
      [] op = "fetchrow"    -> IF d.kind = "record" THEN [kind |-> "dict", n |-> 1]
                                                    ELSE [kind |-> "None", n |-> 0]
      [] op = "executemany" -> [kind |-> "None", n |-> 0]
      [] OTHER              -> d

\* (variant: a failing statement is swallowed and the method returns normally)
StmtFailure_Swallowed(rec) == [Return(rec, "ok") EXCEPT !.out = [kind |-> "None", n |-> 0]]

\* An exception of the driver call leaves the method as it is: no query method
\* has a try block of its own.
StmtFailure(rec) == Raise(rec, "PostgresError", {})

\* The statement of task t completes with k rows: the query method converts the
\* driver's result inside the `async with` block, the connection is released and
\* the method returns.
StmtReturns(t, k) ==
    /\ task[t].pc = "holding"
    /\ LET value == MethodResult(task[t].op, DriverResult(task[t].op, k)) IN
          IF value.kind = "TypeError"
          THEN /\ checkedOut' = ExitConnection(checkedOut, task[t].conn, "error")
               /\ task' = [task EXCEPT ![t] = Raise(@, "TypeError", {})]
          ELSE /\ checkedOut' = ExitConnection(checkedOut, task[t].conn, "return")
               /\ task' = [task EXCEPT ![t] = [Return(@, "ok") EXCEPT !.out = value]]
    /\ UNCHANGED <<env, modeVars, serviceVars, cls_pool, cls_lock, created, poolState, poolSource,
                   acqQueue, closeDone>>

\* The statement completes: the query method returns and the connection is released.
StmtOk(t) == \E k \in 0..MaxRows : StmtReturns(t, k)

\* The statement raises (for executemany: some iteration of the batch raises).
StmtFail(t) ==
    /\ task[t].pc = "holding"
    /\ checkedOut' = ExitConnection(checkedOut, task[t].conn, "error")
    /\ task' = [task EXCEPT ![t] = StmtFailure(task[t])]
    /\ UNCHANGED <<env, modeVars, serviceVars, cls_pool, cls_lock, created, poolState, poolSource,
                   acqQueue, closeDone>>

\* pool.close() returns once every connection is back; close() unsets the handle.
CloseDone(t) ==
    /\ task[t].pc = "closing"
    /\ LET p == task[t].pool IN
          /\ checkedOut[p] = 0
          /\ poolState' = [poolState EXCEPT ![p] = "closed"]
          /\ closeDone' = closeDone \cup {p}
    /\ cls_pool' = HandleAfterClose(cls_pool)
    /\ task' = [Disturb(task) EXCEPT ![t] = Return(task[t], None)]
    /\ UNCHANGED <<env, modeVars, serviceVars, cls_lock, created, poolSource, checkedOut, acqQueue>>

RemoveFrom(q, t) == SelectSeq(q, LAMBDA u : u # t)

\* A get_pool or query call is cancelled (or times out) at its suspension point.
Cancel(t) ==
    /\ task[t].op # "close"
    /\ \/ /\ task[t].pc = "wait_lock"
          /\ cls_lock' = [cls_lock EXCEPT !.waiters = RemoveFrom(@, t)]
          /\ task' = [task EXCEPT ![t] = Raise(@, "CancelledError", {})]
          /\ UNCHANGED <<checkedOut, acqQueue>>
       \/ /\ task[t].pc = "creating"
          /\ cls_lock' = Unlocked(cls_lock.waiters)
          /\ task' = [Disturb(task) EXCEPT ![t] = Raise(task[t], "CancelledError", {})]
          /\ UNCHANGED <<checkedOut, acqQueue>>
       \/ /\ task[t].pc = "acquiring"
          /\ acqQueue' = [acqQueue EXCEPT ![task[t].pool] = RemoveFrom(@, t)]
          /\ task' = [task EXCEPT ![t] = Raise(@, "CancelledError", {})]
          /\ UNCHANGED <<checkedOut, cls_lock>>
       \/ /\ task[t].pc = "holding"
          /\ checkedOut' = ExitConnection(checkedOut, task[t].conn, "cancel")
          /\ task' = [task EXCEPT ![t] = Raise(@, "CancelledError", {})]
          /\ UNCHANGED <<acqQueue, cls_lock>>
    /\ UNCHANGED <<env, modeVars, serviceVars, cls_pool, created, poolState, poolSource, closeDone>>

\* ------------------------------------------------------------ BaseSearchStrategy
\* Similarity scores (in hundredths) the matching function may return; a row may
\* also lack the "similarity" key, or carry a value float() rejects (a NULL).
Scores == {1, 4, 5, 20, 99}
Absent == -1
NotANumber == -2
Similarities == Scores \cup {Absent, NotANumber}

NoSearch ==
    [strategy |-> "none", called |-> FALSE, outcome |-> "none", rows |-> <<>>,
     ret |-> <<>>, raised |-> "", logged |-> FALSE]

\* The sequences of similarities of the candidate rows the database may return.
CandidateLists == UNION {[1..n -> Similarities] : n \in 0..MaxCands}

\* The rows of the matching function as the backend's call returns them: on
\* asyncpg records with native column values, on the hosted SDK decoded JSON.
\* pos is the row's place in the database's order.
DbRows(mode, sims) ==
    [i \in 1..Len(sims) |->
        [pos |-> i, sim |-> sims[i], id |-> IF mode = "asyncpg" THEN "native" ELSE "json"]]

\* _vector_search_asyncpg turns each record into a dict and its id into text;
\* _vector_search_supabase returns response.data as it is.
BackendResults(mode, rows) ==
    IF mode = "asyncpg"
    THEN [i \in 1..Len(rows) |-> [rows[i] EXCEPT !.id = "text"]]
    ELSE rows

\* `result.get("similarity", 0.0)`.
SimilarityOf(row) == IF row.sim = Absent THEN 0 ELSE row.sim

\* float(...) raises on a value that is no number.
FilterFails(results) == \E i \in 1..Len(results) : results[i].sim = NotANumber

\* (variant: a candidate at the threshold is dropped)
FilterResults_Strict(results) ==
    SelectSeq(results, LAMBDA r : SimilarityOf(r) > SIMILARITY_THRESHOLD)

\* The filter loop: the results with similarity >= SIMILARITY_THRESHOLD, in order.
FilterResults(results) ==
    SelectSeq(results, LAMBDA r : SimilarityOf(r) >= SIMILARITY_THRESHOLD)

\* How the backend's call can end: with rows, or with an exception of pool
\* creation, of client creation or of the database call; the awaited asyncpg call
\* can also be cancelled.
Outcomes(mode) ==
    IF mode = "asyncpg"
    THEN {"rows", "ConnectionError", "PostgresError", "TimeoutError", "CancelledError"}
    ELSE {"rows", "ValueError", "APIError"}

\* (variant: only configuration errors are caught)
Caught_ValueErrorOnly(kind) == kind = "ValueError"

\* `except Exception`: CancelledError derives from BaseException and passes.
Caught(kind) == kind # "CancelledError"

\* vector_search from its `try:` on, for the backend outcome and the rows given.
SearchCall(rec, mode, outcome, sims) ==
    LET results == BackendResults(mode, DbRows(mode, sims))
        kind == IF outcome # "rows" THEN outcome
                ELSE IF FilterFails(results) THEN "TypeError" ELSE ""
        base == [rec EXCEPT !.called = TRUE, !.outcome = outcome, !.rows = sims] IN
    IF kind = "" THEN [base EXCEPT !.ret = FilterResults(results)]
    ELSE IF Caught(kind) THEN [base EXCEPT !.ret = <<>>, !.logged = TRUE]
    ELSE [base EXCEPT !.raised = kind]

\* BaseSearchStrategy(): `self._mode = get_database_mode()`; when the mode cannot
\* be resolved the constructor raises and there is no object.
NewStrategy ==
    /\ search.strategy = "none"
    /\ ResolveMode
    /\ search' = IF modeCall'.ret = "ValueError" THEN search
                 ELSE [search EXCEPT !.strategy = modeCall'.ret]
    /\ UNCHANGED <<env, poolVars, conv, rpc, tableVars>>

\* One vector_search call on the strategy object; is_asyncpg_mode() picks the path.
vector_search ==
    /\ search.strategy # "none"
    /\ ~search.called
    /\ ResolveMode
    /\ \E outcome \in Outcomes(modeCall'.ret) :
          \E sims \in IF outcome = "rows" THEN CandidateLists ELSE {<<>>} :
              search' = SearchCall(search, modeCall'.ret, outcome, sims)
    /\ UNCHANGED <<env, poolVars, conv, rpc, tableVars>>

\* ------------------------------------------------------------ search arguments
NoArguments == [called |-> FALSE]

\* Python values a filter holds, and what they are as JSON.
PyValues == {"None", "str_empty", "str", "tuple"}

\* A source id is text, or None.
SourceValues == {"None", "str_empty", "str"}

FilterKeys == {"source", "language", "doc_type"}

EmptyDict == [k \in {} |-> "None"]

\* filter_metadata: None (given = FALSE) or a dict, the empty one included.
Dicts ==
    UNION {{d \in [K -> PyValues] : "source" \in K => d["source"] \in SourceValues}
           : K \in SUBSET FilterKeys}

FilterMetadata ==
    {[given |-> FALSE, items |-> EmptyDict]} \cup {[given |-> TRUE, items |-> d] : d \in Dicts}

Embeddings == {<<0>>, <<1, 0>>}

MatchCounts == 1..MaxVal

\* `if filter_metadata:` is false for None and for the empty dict.
HasFilter(fm) == fm.given /\ DOMAIN fm.items # {}

\* json.dumps of a value: None is null, a tuple is written as an array.
JsonValue(v) ==
    CASE v = "None" -> "null"
      [] v = "str_empty" -> "string_empty"
      [] v = "str" -> "string"
      [] v = "tuple" -> "array"

\* `json.dumps(filter_json)` bound to `$3::jsonb`: the JSON object the database gets.
json_dumps(d) == [k \in DOMAIN d |-> JsonValue(d[k])]

RECURSIVE JoinComma(_)
JoinComma(v) ==
    IF Len(v) = 0 THEN <<>>
    ELSE IF Len(v) = 1 THEN <<ToString(v[1])>>
    ELSE <<ToString(v[1]), ",">> \o JoinComma(Tail(v))

\* `"[" + ",".join(str(x) for x in query_embedding) + "]"`, as its tokens.
VectorLiteral(v) == <<"[">> \o JoinComma(v) \o <<"]">>

\* The bound parameters $1..$4 of _vector_search_asyncpg.
AsyncpgArguments(query_embedding, match_count, fm) ==
    LET source_filter == IF HasFilter(fm) /\ "source" \in DOMAIN fm.items
                         THEN fm.items["source"] ELSE "None"
        filter_json == IF HasFilter(fm) /\ "source" \notin DOMAIN fm.items
                       THEN fm.items ELSE EmptyDict
    IN  [query_embedding |-> VectorLiteral(query_embedding), match_count |-> match_count,
         filter |-> json_dumps(filter_json), source_filter |-> source_filter]

\* rpc_params of _vector_search_supabase.
SupabaseParams_KeepsFilter(query_embedding, match_count, fm) ==
    IF HasFilter(fm) /\ "source" \in DOMAIN fm.items
    THEN [query_embedding |-> query_embedding, match_count |-> match_count,
          source_filter |-> fm.items["source"], filter |-> fm.items]
    ELSE [query_embedding |-> query_embedding, match_count |-> match_count,
          filter |-> IF HasFilter(fm) THEN fm.items ELSE EmptyDict]

SupabaseParams(query_embedding, match_count, fm) ==
    IF HasFilter(fm)
    THEN IF "source" \in DOMAIN fm.items
         THEN [query_embedding |-> query_embedding, match_count |-> match_count,
               source_filter |-> fm.items["source"], filter |-> EmptyDict]
         ELSE [query_embedding |-> query_embedding, match_count |-> match_count,
               filter |-> fm.items]
    ELSE [query_embedding |-> query_embedding, match_count |-> match_count,
          filter |-> EmptyDict]

\* One vector search, with what each of the two paths hands to the database.
VectorSearchArguments ==
    /\ \E query_embedding \in Embeddings, match_count \in MatchCounts, fm \in FilterMetadata :
          rpc' = [called |-> TRUE, filter_metadata |-> fm, match_count |-> match_count,
                  pooled |-> AsyncpgArguments(query_embedding, match_count, fm),
                  hosted |-> SupabaseParams(query_embedding, match_count, fm)]
    /\ UNCHANGED <<env, modeVars, poolVars, search, conv, tableVars>>

\* ------------------------------------------------------------ row_to_dict
Keys == {"id", "created_at", "title"}
ValueTypes == {"uuid", "datetime", "str", "int"}
Values == [type : ValueTypes, v : 1..MaxVal]

\* The arguments of row_to_dict: None, or a record with some of the columns.
Rows ==
    {[isNone |-> TRUE, cols |-> <<>>]}
    \cup {[isNone |-> FALSE, cols |-> c] : c \in UNION {[D -> Values] : D \in SUBSET Keys}}

NoConversion == [called |-> FALSE, row |-> [isNone |-> TRUE, cols |-> <<>>], ret |-> <<>>]

\* str(uuid) and datetime.isoformat(): texts that no plain string of the model
\* equals, one per uuid and one per timestamp.
TextOfUUID(v) == [type |-> "str", v |-> 100 + v]
IsoFormat(v) == [type |-> "str", v |-> 200 + v]

\* (variant: timestamps are left as they are)
ConvertValue_UuidOnly(value) ==
    IF value.type = "uuid" THEN TextOfUUID(value.v) ELSE value

\* `if isinstance(value, UUID) ... elif isinstance(value, datetime) ...`.
ConvertValue(value) ==
    IF value.type = "uuid" THEN TextOfUUID(value.v)
    ELSE IF value.type = "datetime" THEN IsoFormat(value.v)
    ELSE value

row_to_dict(row) ==
    IF row.isNone THEN <<>>
    ELSE [k \in DOMAIN row.cols |-> ConvertValue(row.cols[k])]

\* One call of row_to_dict.
CallRowToDict ==
    /\ ~conv.called
    /\ \E row \in Rows : conv' = [called |-> TRUE, row |-> row, ret |-> row_to_dict(row)]
    /\ UNCHANGED <<env, modeVars, poolVars, search, rpc, tableVars>>

\* ------------------------------------------------------------ project services
\* The calls of the project services run as asyncio tasks; a step is one SQL
\* statement (each is awaited on its own, nothing groups them in a transaction).
ProjIds == 1..MaxProjects
SvcTasks == 1..NumTasks

NoProject == [exists |-> FALSE, pinned |-> FALSE, docs |-> <<>>, data |-> 0]
NoCall == [op |-> "none", pc |-> "idle"]

SvcFinished(t) == svc[t].pc \in {"idle", "returned"}

\* The ids not yet given to a row (the table assigns them).
FreeIds == {p \in ProjIds : ~projects[p].exists}

\* ---- ProjectService.update_project / ProjectCreationService.create_project_with_ai
\* `UPDATE archon_projects SET pinned = false WHERE id != $1 AND pinned = true`.
UnpinOthers(table, target) ==
    [p \in ProjIds |-> IF p # target /\ table[p].exists /\ table[p].pinned
                       THEN [table[p] EXCEPT !.pinned = FALSE] ELSE table[p]]

\* `UPDATE archon_projects SET ... WHERE id = $n`: pinned is set when the caller
\* gave it ("true" or "false"), the other columns are not followed here.
SetColumns(table, target, pinned) ==
    IF table[target].exists /\ pinned # "absent"
    THEN [table EXCEPT ![target].pinned = (pinned = "true")]
    ELSE table

\* create_project_with_ai: the INSERT, with the `pinned` keyword argument as given
\* (default False).
CreateInsert(t) ==
    /\ SvcFinished(t)
    /\ FreeIds # {}
    /\ \E pinned \in BOOLEAN :
          LET p == CHOOSE q \in FreeIds : \A r \in FreeIds : q <= r IN
          /\ projects' = [projects EXCEPT ![p] = [NoProject EXCEPT !.exists = TRUE,
                                                                  !.pinned = pinned]]
          /\ svc' = [svc EXCEPT ![t] = [op |-> "create_project_with_ai", pc |-> "inserted",
                                        target |-> p, pinned |-> pinned]]
    /\ UNCHANGED <<env, modeVars, poolVars, search, conv, rpc, versions, ledger>>

\* create_project_with_ai: the documentation step and the final SELECT; neither
\* writes the pinned column.
CreateFinish(t) ==
    /\ svc[t].op = "create_project_with_ai" /\ svc[t].pc = "inserted"
    /\ svc' = [svc EXCEPT ![t].pc = "returned"]
    /\ UNCHANGED <<env, modeVars, poolVars, search, conv, rpc, projects, versions, ledger>>

\* update_project is called; update_fields may hold pinned (True or False).
UpdateBegin(t) ==
    /\ SvcFinished(t)
    /\ \E target \in ProjIds, pinned \in {"absent", "true", "false"} :
          svc' = [svc EXCEPT ![t] = [op |-> "update_project",
                                     pc |-> IF pinned = "true" THEN "unpin" ELSE "set",
                                     target |-> target, pinned |-> pinned]]
    /\ UNCHANGED <<env, modeVars, poolVars, search, conv, rpc, projects, versions, ledger>>

\* update_project: `if update_fields.get("pinned") is True:` the other projects
\* are unpinned first.
UpdateUnpin(t) ==
    /\ svc[t].op = "update_project" /\ svc[t].pc = "unpin"
    /\ projects' = UnpinOthers(projects, svc[t].target)
    /\ svc' = [svc EXCEPT ![t].pc = "set"]
    /\ UNCHANGED <<env, modeVars, poolVars, search, conv, rpc, versions, ledger>>

\* update_project: the UPDATE of the target row; the call returns.
UpdateSet(t) ==
    /\ svc[t].op = "update_project" /\ svc[t].pc = "set"
    /\ projects' = SetColumns(projects, svc[t].target, svc[t].pinned)
    /\ svc' = [svc EXCEPT ![t].pc = "returned"]
    /\ UNCHANGED <<env, modeVars, poolVars, search, conv, rpc, versions, ledger>>

\* ---- VersioningService.create_version
\* The versions table is followed for one project and one field. Contents of the
\* field are numbered; 0 is the content of a fresh project.
Contents == {0, 1, 2}

\* `SELECT version_number ... ORDER BY version_number DESC LIMIT 1`, then
\* `next_version = 1; if result: next_version = result["version_number"] + 1`.
NextVersion(rows) ==
    IF rows = <<>> THEN 1
    ELSE 1 + CHOOSE n \in {rows[i].number : i \in 1..Len(rows)} :
                 \A i \in 1..Len(rows) : rows[i].number <= n

\* How the INSERT of a version row can end: the row is stored, or the statement
\* raises (the connection fails, or a constraint of the table rejects the row).
InsertOutcomes == {"stored", "raised"}

\* The version rows a call has been given room for and has not inserted yet.
PendingInserts ==
    Cardinality({t \in SvcTasks : svc[t].pc \in {"insert", "backup_read", "backup_insert",
                                                 "update", "restore_read", "restore_insert"}})

\* create_version is called and reads the highest version number recorded.
VersionRead(t) ==
    /\ SvcFinished(t)
    /\ Len(versions) + 2 * PendingInserts < MaxVersions
    /\ \E content \in Contents :
          svc' = [svc EXCEPT ![t] = [op |-> "create_version", pc |-> "insert",
                                     next |-> NextVersion(versions), content |-> content,
                                     ok |-> FALSE]]
    /\ UNCHANGED <<env, modeVars, poolVars, search, conv, rpc, projects, versions, ledger>>

\* create_version inserts the row with the number it computed and returns; an
\* exception of the INSERT is caught and the call returns a failure result.
VersionInsert(t) ==
    /\ svc[t].op = "create_version" /\ svc[t].pc = "insert"
    /\ \E outcome \in InsertOutcomes :
          IF outcome = "stored"
          THEN /\ versions' = Append(versions, [number |-> svc[t].next, type |-> "update",
                                                content |-> svc[t].content])
               /\ svc' = [svc EXCEPT ![t].pc = "returned", ![t].ok = TRUE]
          ELSE /\ versions' = versions
               /\ svc' = [svc EXCEPT ![t].pc = "returned", ![t].ok = FALSE]
    /\ UNCHANGED <<env, modeVars, poolVars, search, conv, rpc, projects, ledger>>

\* ---- VersioningService.restore_version
\* The project whose field the version rows belong to.
Versioned == 1

\* `SELECT * FROM archon_document_versions WHERE ... version_number = $3`: the
\* rows with that number, first match first.
VersionRows(rows, n) == SelectSeq(rows, LAMBDA row : row.number = n)

\* How the UPDATE of the project's field can end.
UpdateOutcomes == {"done", "raised"}

\* `UPDATE archon_projects SET {field_name} = $1 ... WHERE id = $3`
SetField(table, target, content) ==
    IF table[target].exists THEN [table EXCEPT ![target].data = content] ELSE table

\* restore_version returns; an exception of a statement is caught and turned into
\* a failure result.
RestoreReturn(t, ok) == svc' = [svc EXCEPT ![t].pc = "returned", ![t].ok = ok]

\* restore_version is called and selects the version to restore.
RestoreBegin(t) ==
    /\ SvcFinished(t)
    /\ Len(versions) + 2 * PendingInserts + 2 <= MaxVersions
    /\ \E n \in 1..MaxVersions :
          LET found == VersionRows(versions, n)
              frame == [op |-> "restore_version", pc |-> "current", mode |-> SelectMode(env),
                        number |-> n, found |-> found # <<>>,
                        content |-> IF found # <<>> THEN found[1].content ELSE 0,
                        before |-> projects[Versioned].data, next |-> 0,
                        log |-> <<>>, ok |-> FALSE]
          IN  svc' = [svc EXCEPT ![t] = IF frame.found THEN frame
                                        ELSE [frame EXCEPT !.pc = "returned"]]
    /\ UNCHANGED <<env, modeVars, poolVars, search, conv, rpc, projects, versions, ledger>>

\* restore_version selects the field's current content; a backup is taken only
\* when the project row is there.
RestoreCurrent(t) ==
    /\ svc[t].op = "restore_version" /\ svc[t].pc = "current"
    /\ svc' = [svc EXCEPT ![t].pc = IF projects[Versioned].exists THEN "backup_read"
                                    ELSE "update",
                          ![t].before = projects[Versioned].data]
    /\ UNCHANGED <<env, modeVars, poolVars, search, conv, rpc, projects, versions, ledger>>

\* create_version of the backup reads the highest version number.
RestoreBackupRead(t) ==
    /\ svc[t].op = "restore_version" /\ svc[t].pc = "backup_read"
    /\ svc' = [svc EXCEPT ![t].pc = "backup_insert", ![t].next = NextVersion(versions)]
    /\ UNCHANGED <<env, modeVars, poolVars, search, conv, rpc, projects, versions, ledger>>

\* create_version of the backup inserts the row. On the pooled path a failure is
\* returned by create_version and logged as a warning; on the hosted path the
\* exception leaves restore_version, which returns a failure result.
RestoreBackupInsert(t) ==
    /\ svc[t].op = "restore_version" /\ svc[t].pc = "backup_insert"
    /\ \E outcome \in InsertOutcomes :
          IF outcome = "stored"
          THEN LET row == [number |-> svc[t].next, type |-> "backup",
                           content |-> svc[t].before]
               IN  /\ versions' = Append(versions, row)
                   /\ svc' = [svc EXCEPT ![t].pc = "update",
                                         ![t].log = Append(@, [write |-> "backup",
                                                               content |-> row.content])]
          ELSE /\ versions' = versions
               /\ IF svc[t].mode = "asyncpg"
                  THEN svc' = [svc EXCEPT ![t].pc = "update"]
                  ELSE RestoreReturn(t, FALSE)
    /\ UNCHANGED <<env, modeVars, poolVars, search, conv, rpc, projects, ledger>>

\* restore_version writes the restored content to the project's field.
RestoreUpdate(t) ==
    /\ svc[t].op = "restore_version" /\ svc[t].pc = "update"
    /\ \E outcome \in UpdateOutcomes :
          IF outcome = "raised"
          THEN RestoreReturn(t, FALSE) /\ projects' = projects
          ELSE /\ projects' = SetField(projects, Versioned, svc[t].content)
               /\ LET log == IF projects[Versioned].exists
                             THEN Append(svc[t].log, [write |-> "update",
                                                      content |-> svc[t].content])
                             ELSE svc[t].log
                  IN  IF svc[t].mode = "asyncpg" \/ projects[Versioned].exists
                      THEN svc' = [svc EXCEPT ![t].pc = "restore_read", ![t].log = log]
                      ELSE RestoreReturn(t, FALSE)
    /\ UNCHANGED <<env, modeVars, poolVars, search, conv, rpc, versions, ledger>>

\* create_version of the restore record reads the highest version number.
RestoreVersionRead(t) ==
    /\ svc[t].op = "restore_version" /\ svc[t].pc = "restore_read"
    /\ svc' = [svc EXCEPT ![t].pc = "restore_insert", ![t].next = NextVersion(versions)]
    /\ UNCHANGED <<env, modeVars, poolVars, search, conv, rpc, projects, versions, ledger>>

\* create_version of the restore record inserts the row; the pooled path ignores
\* its result, on the hosted path an exception makes restore_version fail.
RestoreVersionInsert(t) ==
    /\ svc[t].op = "restore_version" /\ svc[t].pc = "restore_insert"
    /\ \E outcome \in InsertOutcomes :
          IF outcome = "stored"
          THEN LET row == [number |-> svc[t].next, type |-> "restore",
                           content |-> svc[t].content]
               IN  /\ versions' = Append(versions, row)
                   /\ svc' = [svc EXCEPT ![t].pc = "returned", ![t].ok = TRUE,
                                         ![t].log = Append(@, [write |-> "restore",
                                                               content |-> row.content])]
          ELSE /\ versions' = versions
               /\ RestoreReturn(t, svc[t].mode = "asyncpg")
    /\ UNCHANGED <<env, modeVars, poolVars, search, conv, rpc, projects, ledger>>

\* ---- DocumentService: add_document, update_document, delete_document
DocIds == 1..MaxDocs

\* Titles that update_document writes; a document is added with title 0.
Titles == {1, 2}

NoLedger == [issued |-> 0, added |-> {}, deleted |-> {}, title |-> [d \in DocIds |-> 0]]

\* `any(doc.get("id") == doc_id for doc in docs)`
HasDoc(docs, d) == \E i \in 1..Len(docs) : docs[i].id = d

\* `[doc for doc in docs if doc.get("id") != doc_id]`
WithoutDoc(docs, d) == SelectSeq(docs, LAMBDA doc : doc.id # d)

\* The loop of update_document over a copy of the array it read.
WithTitle(docs, d, title) ==
    [i \in 1..Len(docs) |-> IF docs[i].id = d THEN [docs[i] EXCEPT !.title = title]
                            ELSE docs[i]]

\* `UPDATE archon_projects SET docs = $1 ... WHERE id = $3`
SetDocs(table, target, docs) == [table EXCEPT ![target].docs = docs]

\* Any of the three calls ends without a write.
DocFailure(t, op) == svc' = [svc EXCEPT ![t] = [op |-> op, pc |-> "returned", ok |-> FALSE]]

\* add_document reads the project's docs array and builds the new document.
AddRead(t) ==
    /\ SvcFinished(t)
    /\ \E p \in ProjIds :
          IF ~projects[p].exists
          THEN DocFailure(t, "add_document") /\ UNCHANGED ledger
          ELSE /\ ledger.issued < MaxDocs
               /\ svc' = [svc EXCEPT ![t] = [op |-> "add_document", pc |-> "write",
                                             target |-> p, doc |-> ledger.issued + 1,
                                             snapshot |-> projects[p].docs, ok |-> FALSE]]
               /\ ledger' = [ledger EXCEPT !.issued = @ + 1]
    /\ UNCHANGED <<env, modeVars, poolVars, search, conv, rpc, projects, versions>>

\* add_document writes the array it read with the new document appended.
AddWrite(t) ==
    /\ svc[t].op = "add_document" /\ svc[t].pc = "write"
    /\ projects' = SetDocs(projects, svc[t].target,
                           Append(svc[t].snapshot, [id |-> svc[t].doc, title |-> 0]))
    /\ svc' = [svc EXCEPT ![t].pc = "returned", ![t].ok = TRUE]
    /\ ledger' = [ledger EXCEPT !.added = @ \cup {svc[t].doc}]
    /\ UNCHANGED <<env, modeVars, poolVars, search, conv, rpc, versions>>

\* update_document after its optional version snapshot: a document that is not in
\* the array it read ends the call, otherwise the UPDATE follows.
UpdateLookup(t, frame) ==
    IF HasDoc(frame.snapshot, frame.doc)
    THEN svc' = [svc EXCEPT ![t] = [frame EXCEPT !.pc = "write"]]
    ELSE DocFailure(t, "update_document")

\* update_document reads the project's docs array.
UpdateRead(t) ==
    /\ SvcFinished(t)
    /\ \E p \in ProjIds, d \in DocIds, title \in Titles, create_version \in BOOLEAN :
          IF ~projects[p].exists
          THEN DocFailure(t, "update_document")
          ELSE LET frame == [op |-> "update_document", pc |-> "version_read", target |-> p,
                             doc |-> d, title |-> title, snapshot |-> projects[p].docs,
                             ok |-> FALSE]
               IN  IF create_version /\ frame.snapshot # <<>>
                   THEN svc' = [svc EXCEPT ![t] = frame]
                   ELSE UpdateLookup(t, frame)
    /\ UNCHANGED <<env, modeVars, poolVars, search, conv, rpc, projects, versions, ledger>>

\* The create_version call of update_document reads the highest version number
\* of field "docs", whose version rows are not among the ones followed here.
UpdateVersionRead(t) ==
    /\ svc[t].op = "update_document" /\ svc[t].pc = "version_read"
    /\ svc' = [svc EXCEPT ![t].pc = "version_insert"]
    /\ UNCHANGED <<env, modeVars, poolVars, search, conv, rpc, projects, versions, ledger>>

\* The create_version call inserts the snapshot of field "docs"; whether it is
\* stored or fails (a failure is logged), the update goes on.
UpdateVersionInsert(t) ==
    /\ svc[t].op = "update_document" /\ svc[t].pc = "version_insert"
    /\ UpdateLookup(t, svc[t])
    /\ UNCHANGED <<env, modeVars, poolVars, search, conv, rpc, projects, versions, ledger>>

\* update_document writes the array it read with the one document changed.
UpdateWrite(t) ==
    /\ svc[t].op = "update_document" /\ svc[t].pc = "write"
    /\ projects' = SetDocs(projects, svc[t].target,
                           WithTitle(svc[t].snapshot, svc[t].doc, svc[t].title))
    /\ svc' = [svc EXCEPT ![t].pc = "returned", ![t].ok = TRUE]
    /\ ledger' = [ledger EXCEPT !.title[svc[t].doc] = svc[t].title]
    /\ UNCHANGED <<env, modeVars, poolVars, search, conv, rpc, versions>>

\* delete_document reads the project's docs array and filters the document out.
DeleteRead(t) ==
    /\ SvcFinished(t)
    /\ \E p \in ProjIds, d \in DocIds :
          IF ~projects[p].exists \/ ~HasDoc(projects[p].docs, d)
          THEN DocFailure(t, "delete_document")
          ELSE svc' = [svc EXCEPT ![t] = [op |-> "delete_document", pc |-> "write",
                                          target |-> p, doc |-> d,
                                          snapshot |-> projects[p].docs, ok |-> FALSE]]
    /\ UNCHANGED <<env, modeVars, poolVars, search, conv, rpc, projects, versions, ledger>>

\* delete_document writes the filtered array.
DeleteWrite(t) ==
    /\ svc[t].op = "delete_document" /\ svc[t].pc = "write"
    /\ projects' = SetDocs(projects, svc[t].target, WithoutDoc(svc[t].snapshot, svc[t].doc))
    /\ svc' = [svc EXCEPT ![t].pc = "returned", ![t].ok = TRUE]
    /\ ledger' = [ledger EXCEPT !.deleted = @ \cup {svc[t].doc}]
    /\ UNCHANGED <<env, modeVars, poolVars, search, conv, rpc, versions>>

InitService ==
    /\ search = NoSearch
    /\ conv = NoConversion
    /\ rpc = NoArguments
    /\ projects = [p \in ProjIds |-> NoProject]
    /\ versions = <<>>
    /\ svc = [t \in SvcTasks |-> NoCall]
    /\ ledger = NoLedger

\* ------------------------------------------------------------ specifications
InitPoolState ==
    /\ cls_pool = None
    /\ cls_lock = [locked |-> FALSE, waiters |-> <<>>]
    /\ created = 0
    /\ poolState = [p \in PoolIds |-> "none"]
    /\ poolSource = [p \in PoolIds |-> "none"]
    /\ checkedOut = [p \in PoolIds |-> 0]
    /\ acqQueue = [p \in PoolIds |-> <<>>]
    /\ closeDone = {}

InitMode ==
    /\ database_mode = "None"
    /\ modeCall = NoModeCall

\* A fresh process with NumTasks caller tasks; each pool variable is set or not.
Init ==
    /\ env \in [EnvNames -> {"unset", "value"}]
    /\ env["SUPABASE_URL"] = "unset" /\ env["SUPABASE_SERVICE_KEY"] = "unset"
    /\ InitMode
    /\ InitService
    /\ InitPoolState
    /\ task = [t \in 1..NumTasks |-> Frame("none")]

Next ==
    \/ \E t \in Procs : Begin(t, LifecycleOps)
    \/ \E t \in Procs : LockGranted(t)
    \/ \E t \in Procs : CreateOk(t)
    \/ \E t \in Procs : CreateFail(t)
    \/ \E t \in Procs : Acquire(t)
    \/ \E t \in Procs : StmtOk(t)
    \/ \E t \in Procs : StmtFail(t)
    \/ \E t \in Procs : CloseDone(t)
    \/ \E t \in Procs : Cancel(t)

Spec == Init /\ [][Next]_vars

\* The backend selector alone, in an environment that changes under it.
InitSelector ==
    /\ env \in [EnvNames -> EnvValues]
    /\ InitMode
    /\ InitService
    /\ InitPoolState
    /\ task = [t \in 1..NumTasks |-> Frame("none")]

NextSelector == get_database_mode \/ SetEnv

SpecSelector == InitSelector /\ [][NextSelector]_vars

\* A fresh process in any environment of the pool variables (unset, empty or set).
InitQuery ==
    /\ env \in [EnvNames -> EnvValues]
    /\ env["SUPABASE_URL"] = "unset" /\ env["SUPABASE_SERVICE_KEY"] = "unset"
    /\ InitMode
    /\ InitService
    /\ InitPoolState
    /\ task = [t \in 1..NumTasks |-> Frame("none")]

\* The five query methods, run by NumTasks concurrent callers; nobody closes the pool.
NextQuery ==
    \/ \E t \in Procs : Begin(t, QueryOps)
    \/ \E t \in Procs : LockGranted(t)
    \/ \E t \in Procs : CreateOk(t)
    \/ \E t \in Procs : CreateFail(t)
    \/ \E t \in Procs : Acquire(t)
    \/ \E t \in Procs : StmtOk(t)
    \/ \E t \in Procs : StmtFail(t)
    \/ \E t \in Procs : Cancel(t)

SpecQuery == InitQuery /\ [][NextQuery]_vars

\* NumCallers fetch calls against a ready pool and a slow statement: every call has
\* got the handle from get_pool and queues in pool.acquire(), in the order of the calls.
InitSaturation ==
    /\ env = [n \in EnvNames |-> IF n = "DATABASE_URL" THEN "value" ELSE "unset"]
    /\ InitMode
    /\ InitService
    /\ cls_pool = 1
    /\ cls_lock = [locked |-> FALSE, waiters |-> <<>>]
    /\ created = 1
    /\ poolState = [p \in PoolIds |-> IF p = 1 THEN "open" ELSE "none"]
    /\ poolSource = [p \in PoolIds |-> IF p = 1 THEN "url" ELSE "none"]
    /\ checkedOut = [p \in PoolIds |-> 0]
    /\ acqQueue = [p \in PoolIds |-> IF p = 1 THEN [i \in 1..NumCallers |-> i] ELSE <<>>]
    /\ closeDone = {}
    /\ task = [t \in 1..NumCallers |->
                 [Frame("fetch") EXCEPT !.pc = "acquiring", !.pool = 1]]

\* The slow statement of the scenario completes; it yields one row.
SlowStatement(t) == StmtReturns(t, 1)

NextSaturation ==
    \/ \E t \in Procs : Acquire(t)
    \/ \E t \in Procs : SlowStatement(t)

\* The event loop resumes a waiter the pool can serve, and every statement that is
\* executing eventually finishes.
SpecSaturation ==
    /\ InitSaturation
    /\ [][NextSaturation]_vars
    /\ WF_vars(\E t \in Procs : Acquire(t))
    /\ \A t \in 1..NumCallers : WF_vars(SlowStatement(t))

\* A process configured for one backend, for the other, or for none, whose code
\* builds a search strategy and runs one vector search.
InitSearch ==
    /\ env \in [EnvNames -> {"unset", "value"}]
    /\ env["POSTGRES_HOST"] = "unset"
    /\ env["SUPABASE_URL"] = env["SUPABASE_SERVICE_KEY"]
    /\ InitMode
    /\ InitService
    /\ InitPoolState
    /\ task = [t \in 1..NumTasks |-> Frame("none")]

NextSearch == NewStrategy \/ vector_search

SpecSearch == InitSearch /\ [][NextSearch]_vars

\* One row_to_dict call on any row.
InitConvert ==
    /\ env = [n \in EnvNames |-> IF n = "DATABASE_URL" THEN "value" ELSE "unset"]
    /\ InitMode
    /\ InitService
    /\ InitPoolState
    /\ task = [t \in 1..NumTasks |-> Frame("none")]

NextConvert == CallRowToDict

SpecConvert == InitConvert /\ [][NextConvert]_vars

\* A process on the pooled backend whose tables are empty.
InitTables ==
    /\ env = [n \in EnvNames |-> IF n = "DATABASE_URL" THEN "value" ELSE "unset"]
    /\ InitMode
    /\ InitService
    /\ InitPoolState
    /\ task = [t \in 1..NumTasks |-> Frame("none")]

\* Tasks that create projects and update them, pinning and unpinning.
NextPinning ==
    \/ \E t \in SvcTasks : CreateInsert(t)
    \/ \E t \in SvcTasks : CreateFinish(t)
    \/ \E t \in SvcTasks : UpdateBegin(t)
    \/ \E t \in SvcTasks : UpdateUnpin(t)
    \/ \E t \in SvcTasks : UpdateSet(t)

SpecPinning == InitTables /\ [][NextPinning]_vars

\* Tasks that record versions of one field of one project.
NextVersions ==
    \/ \E t \in SvcTasks : VersionRead(t)
    \/ \E t \in SvcTasks : VersionInsert(t)

SpecVersions == InitTables /\ [][NextVersions]_vars

\* A project has been created; tasks add, update and delete its documents.
InitDocuments ==
    /\ env = [n \in EnvNames |-> IF n = "DATABASE_URL" THEN "value" ELSE "unset"]
    /\ InitMode
    /\ InitPoolState
    /\ task = [t \in 1..NumTasks |-> Frame("none")]
    /\ search = NoSearch
    /\ conv = NoConversion
    /\ rpc = NoArguments
    /\ projects = [p \in ProjIds |-> IF p = 1 THEN [NoProject EXCEPT !.exists = TRUE]
                                     ELSE NoProject]
    /\ versions = <<>>
    /\ svc = [t \in SvcTasks |-> NoCall]
    /\ ledger = NoLedger

NextDocuments ==
    \/ \E t \in SvcTasks : AddRead(t)
    \/ \E t \in SvcTasks : AddWrite(t)
    \/ \E t \in SvcTasks : UpdateRead(t)
    \/ \E t \in SvcTasks : UpdateVersionRead(t)
    \/ \E t \in SvcTasks : UpdateVersionInsert(t)
    \/ \E t \in SvcTasks : UpdateWrite(t)
    \/ \E t \in SvcTasks : DeleteRead(t)
    \/ \E t \in SvcTasks : DeleteWrite(t)

SpecDocuments == InitDocuments /\ [][NextDocuments]_vars

NextArguments == VectorSearchArguments

SpecArguments == InitTables /\ [][NextArguments]_vars

\* Either backend is configured and the project row may be there or not; tasks
\* record versions of the field and restore them.
InitRestore ==
    /\ env \in {[n \in EnvNames |-> IF n = "DATABASE_URL" THEN "value" ELSE "unset"],
                [n \in EnvNames |-> IF n \in {"SUPABASE_URL", "SUPABASE_SERVICE_KEY"}
                                    THEN "value" ELSE "unset"]}
    /\ InitMode
    /\ InitPoolState
    /\ task = [t \in 1..NumTasks |-> Frame("none")]
    /\ search = NoSearch
    /\ conv = NoConversion
    /\ rpc = NoArguments
    /\ \E there \in BOOLEAN :
          projects = [p \in ProjIds |-> IF p = Versioned
                                        THEN [NoProject EXCEPT !.exists = there]
                                        ELSE NoProject]
    /\ versions = <<>>
    /\ svc = [t \in SvcTasks |-> NoCall]
    /\ ledger = NoLedger

NextRestore ==
    \/ \E t \in SvcTasks : VersionRead(t)
    \/ \E t \in SvcTasks : VersionInsert(t)
    \/ \E t \in SvcTasks : RestoreBegin(t)
    \/ \E t \in SvcTasks : RestoreCurrent(t)
    \/ \E t \in SvcTasks : RestoreBackupRead(t)
    \/ \E t \in SvcTasks : RestoreBackupInsert(t)
    \/ \E t \in SvcTasks : RestoreUpdate(t)
    \/ \E t \in SvcTasks : RestoreVersionRead(t)
    \/ \E t \in SvcTasks : RestoreVersionInsert(t)

SpecRestore == InitRestore /\ [][NextRestore]_vars

\* ------------------------------------------------------------ properties
Holders(p) == {t \in Procs : task[t].pc = "holding" /\ task[t].conn = p}

\* A get_pool call that has returned, had found the handle unset when it started,
\* and has seen no close and no failed or cancelled creation since.
FirstTimeCall(t) ==
    /\ task[t].op = "get_pool"
    /\ task[t].pc = "returned"
    /\ task[t].sawNone
    /\ task[t].clean

\* C1: get_pool calls that start while the handle is unset and interleave, with no
\* close in between and a creation that succeeds, see exactly one create_pool
\* invocation end after they started, and all return the handle of that one pool.
C1_SingletonPool ==
    \A t \in Procs :
        FirstTimeCall(t) =>
            /\ created = task[t].born + 1
            /\ task[t].res = created
            /\ poolState[task[t].res] # "none"
            /\ \A u \in Procs : FirstTimeCall(u) => task[u].res = task[t].res

C1_Witness ==
    \E t, u \in Procs :
        /\ t # u
        /\ FirstTimeCall(t) /\ FirstTimeCall(u)
        /\ task[t].res = task[u].res

\* C2: when close() completes, the handle is unset and the pool it closed is closed;
\* a get_pool call that finds the handle unset and the lock free invokes create_pool;
\* a get_pool call never returns a pool on which a close() has completed, and one
\* that found the handle unset returns a pool constructed after it started.
C2_RecreateAfterClose ==
    [][\A t \in Procs :
        /\ (task[t].pc = "closing" /\ CloseDone(t)) =>
              /\ cls_pool' = None
              /\ poolState'[task[t].pool] = "closed"
        /\ (/\ cls_pool = None /\ ~cls_lock.locked /\ cls_lock.waiters = <<>>
            /\ PoolConfigured(env)
            /\ Finished(task[t]) /\ task'[t].op = "get_pool"
            /\ Begin(t, {"get_pool"})) =>
              /\ task'[t].pc = "creating"
              /\ created' = created + 1
        /\ (/\ task'[t].op = "get_pool" /\ task'[t].pc = "returned"
            /\ Begin(t, {"get_pool"}) \/ LockGranted(t) \/ CreateOk(t)) =>
              /\ task'[t].res \in PoolIds
              /\ task'[t].res \notin closeDone'
              /\ task'[t].sawNone => task'[t].res > task'[t].born
      ]_vars

C2_Witness ==
    \E t \in Procs :
        /\ task[t].op = "get_pool" /\ task[t].pc = "returned"
        /\ task[t].sawNone
        /\ closeDone # {}
        /\ \A p \in closeDone : task[t].res > p

\* C3: close() never raises; called on an unset handle it returns at once, closes
\* nothing and leaves the handle, the lock and every pool as they were; a close()
\* that completes leaves the handle unset, so that a close() right after it is
\* such a no-op.
C3_IdempotentClose ==
    [][\A t \in Procs :
        /\ task'[t].op = "close" => task'[t].pc # "raised"
        /\ (cls_pool = None /\ task'[t].op = "close" /\ Begin(t, {"close"})) =>
              /\ task'[t].pc = "returned"
              /\ UNCHANGED <<cls_pool, cls_lock, created, poolState, checkedOut,
                             acqQueue, closeDone>>
        /\ (task[t].pc = "closing" /\ CloseDone(t)) => cls_pool' = None
      ]_vars

C3_Witness ==
    \E t, u \in Procs :
        /\ t # u
        /\ task[t].op = "close" /\ task[t].pc = "returned"
        /\ task[u].op = "close" /\ task[u].pc = "returned"
        /\ cls_pool = None
        /\ closeDone = {}

\* C4: when the statement of a query method raises after the connection was
\* acquired, the method raises with its connection back in the pool: the pool's
\* count of checked-out connections is one less, as before the acquisition.
C4_ReleaseOnFailure ==
    [][\A t \in Procs :
        (task[t].pc = "holding" /\ StmtFail(t)) =>
            /\ task[t].op \in QueryOps
            /\ task'[t].pc = "raised" /\ task'[t].conn = None
            /\ checkedOut'[task[t].conn] = checkedOut[task[t].conn] - 1
            /\ checkedOut'[task[t].conn] = Cardinality(Holders(task[t].conn) \ {t})
      ]_vars

C4_Witness ==
    \E t, u \in Procs :
        /\ task[t].op = "execute" /\ task[t].err = "PostgresError"
        /\ task[u].op = "executemany" /\ task[u].err = "PostgresError"
        /\ \A p \in PoolIds : checkedOut[p] = 0

\* C5: a query call cancelled at a suspension point holds no connection afterwards:
\* cancelled during the round-trip it gives its connection back, cancelled while it
\* waits (for the lock, the creation or a connection) it never had one and is no
\* longer queued for one.
C5_ReleaseOnCancel ==
    [][\A t \in Procs :
        (task'[t].err = "CancelledError" /\ Cancel(t)) =>
            /\ task'[t].conn = None
            /\ \A p \in PoolIds :
                  /\ checkedOut'[p] = Cardinality({u \in Procs : task'[u].conn = p})
                  /\ \A i \in 1..Len(acqQueue'[p]) : acqQueue'[p][i] # t
            /\ task[t].pc = "holding" =>
                  checkedOut'[task[t].conn] = checkedOut[task[t].conn] - 1
            /\ task[t].pc # "holding" => checkedOut' = checkedOut
      ]_vars

C5_Witness ==
    \E t, u \in Procs :
        /\ t # u
        /\ task[t].op \in QueryOps /\ task[t].err = "CancelledError"
        /\ task[u].pc = "holding"
        /\ checkedOut[task[u].conn] = 1

\* C6: a call holds a connection only between its acquire and its release, a call
\* that has returned or raised holds none, and each pool's count of checked-out
\* connections is the number of calls that hold one of its connections.
C6_ConnectionAccounting ==
    /\ \A t \in Procs :
          /\ task[t].conn # None <=> task[t].pc = "holding"
          /\ Finished(task[t]) => task[t].conn = None
    /\ \A p \in PoolIds :
          checkedOut[p] = Cardinality({t \in Procs : task[t].conn = p})

C6_Witness ==
    \E t, u \in Procs :
        /\ task[t].pc = "holding" /\ checkedOut[task[t].conn] = 1
        /\ task[u].pc = "raised" /\ task[u].err = "PostgresError"

\* C7: with max_size 10 and NumCallers (15) concurrent fetch calls, never more than
\* 10 connections are checked out, a caller the pool cannot serve stays queued, and
\* eventually every call has acquired a connection and returned successfully.
C7_SaturationServed ==
    /\ [](/\ \A p \in PoolIds : checkedOut[p] <= 10 /\ Cardinality(Holders(p)) <= 10
          /\ \A t \in Procs : task[t].pc \in {"acquiring", "holding", "returned"}
          /\ \A t \in Procs :
                (task[t].pc = "acquiring" /\ checkedOut[task[t].pool] = 10)
                    => ~ENABLED Acquire(t))
    /\ <>(\A t \in Procs : task[t].pc = "returned" /\ task[t].res = "ok")

C7_Witness ==
    /\ Cardinality(Procs) >= 15
    /\ checkedOut[1] = 10
    /\ Len(acqQueue[1]) >= 5
    /\ \A t \in Procs : task[t].pc # "returned"

\* C8: once a get_database_mode call has returned a mode, every later call returns
\* that mode and does not read the environment, whatever the environment is by then.
C8_ModeMemoized ==
    [][(get_database_mode /\ modeCall.first # "None") =>
          /\ modeCall'.ret = modeCall.first
          /\ ~modeCall'.inspected
          /\ database_mode' = modeCall.first
      ]_vars

C8_Witness ==
    /\ modeCall.first = "asyncpg"
    /\ modeCall.ret = "asyncpg" /\ ~modeCall.inspected
    /\ env["DATABASE_URL"] = "unset"
    /\ env["SUPABASE_URL"] = "value" /\ env["SUPABASE_SERVICE_KEY"] = "value"

C10_NotConfigured ==
    (\A n \in EnvNames : env[n] # "value") =>
        /\ created = 0
        /\ cls_pool = None
        /\ ~cls_lock.locked /\ cls_lock.waiters = <<>>
        /\ \A t \in Procs :
              /\ task[t].pc \in {"idle", "raised"}
              /\ task[t].pc = "raised" =>
                    /\ task[t].op \in QueryOps
                    /\ task[t].err = "ValueError"
                    /\ {"DATABASE_URL", "POSTGRES_*"} \subseteq task[t].mentions

C10_Witness ==
    /\ \A n \in EnvNames : env[n] = "unset"
    /\ \E t, u \in Procs :
          /\ task[t].op = "fetchval" /\ task[t].err = "ValueError"
          /\ task[u].op = "executemany" /\ task[u].err = "ValueError"

\* C11: when the pool variables are configured and create_pool fails, whatever the
\* cause, the call raises ConnectionError; ValueError is raised only when nothing
\* is configured and ConnectionError only when something is, so the error kind
\* tells "not configured" from "cannot connect".
C11_CannotConnect ==
    [][\A t \in Procs :
        /\ (task[t].pc = "creating" /\ CreateFail(t)) =>
              /\ PoolConfigured(env)
              /\ task'[t].pc = "raised"
              /\ task'[t].err = "ConnectionError"
        /\ task'[t].err = "ValueError" => ~PoolConfigured(env)
        /\ task'[t].err = "ConnectionError" => PoolConfigured(env) /\ created' >= 1
      ]_vars

C11_Witness ==
    \E t \in Procs :
        /\ task[t].op \in QueryOps
        /\ task[t].err = "ConnectionError"
        /\ env["DATABASE_URL"] = "value"
        /\ created = 1 /\ poolState[1] = "none"

\* C12: a call enters pool construction at most once and never after it has left
\* it; when construction fails the call raises ConnectionError at once (no second
\* create_pool invocation), the handle stays unset and the lock is released; a
\* get_pool call that then finds the handle unset and the lock free invokes
\* create_pool again.
C12_NoInternalRetry ==
    [][\A t \in Procs :
        /\ (task[t].pc = "creating" /\ CreateFail(t)) =>
              /\ task'[t].pc = "raised" /\ task'[t].err = "ConnectionError"
              /\ created' = created
              /\ cls_pool' = None
              /\ ~cls_lock'.locked
        /\ (task[t].pc # "creating" /\ task'[t].pc = "creating") =>
              task[t].pc \in {"idle", "returned", "raised", "wait_lock"}
        /\ task[t].pc \in {"acquiring", "holding"} =>
              task'[t].pc \notin {"creating", "wait_lock"}
        /\ (/\ cls_pool = None /\ ~cls_lock.locked /\ cls_lock.waiters = <<>>
            /\ created >= 1
            /\ Finished(task[t]) /\ task'[t].op = "get_pool"
            /\ Begin(t, {"get_pool"})) =>
              /\ task'[t].pc = "creating"
              /\ created' = created + 1
      ]_vars

C12_Witness ==
    \E t, u \in Procs :
        /\ task[t].err = "ConnectionError"
        /\ task[u].op = "get_pool" /\ task[u].pc = "returned" /\ task[u].res = 2
        /\ poolState[1] = "none" /\ poolState[2] = "open"
        /\ closeDone = {}

\* C13: a pool is built from the discrete POSTGRES_* fields exactly when
\* POSTGRES_HOST is set (to a non-empty value), also when DATABASE_URL is set too;
\* it is built from the connection string only when no host is set.
C13_ConfigPrecedence ==
    \A p \in PoolIds :
        poolSource[p] # "none" =>
            /\ poolSource[p] = "discrete" <=> env["POSTGRES_HOST"] = "value"
            /\ poolSource[p] = "url" <=>
                  (env["POSTGRES_HOST"] # "value" /\ env["DATABASE_URL"] = "value")

C13_Witness ==
    /\ env["DATABASE_URL"] = "value" /\ env["POSTGRES_HOST"] = "value"
    /\ \E p \in PoolIds : poolSource[p] = "discrete" /\ poolState[p] = "open"

\* C14: a statement that yields no rows makes the query method return normally:
\* fetch an empty list, fetchrow None, fetchval None, and the connection is given
\* back to the pool as on any normal return.
C14_ZeroRows ==
    [][\A t \in Procs :
        (task[t].pc = "holding" /\ StmtReturns(t, 0)) =>
            /\ task'[t].pc = "returned"
            /\ task'[t].err = ""
            /\ task[t].op = "fetch" => task'[t].out = [kind |-> "list", n |-> 0]
            /\ task[t].op = "fetchrow" => task'[t].out.kind = "None"
            /\ task[t].op = "fetchval" => task'[t].out.kind = "None"
            /\ task'[t].conn = None
            /\ checkedOut'[task[t].conn] = checkedOut[task[t].conn] - 1
      ]_vars

C14_Witness ==
    \E t \in Procs :
        /\ task[t].op = "fetchrow"
        /\ task[t].pc = "returned"
        /\ task[t].out.kind = "None"
        /\ created = 1 /\ checkedOut[1] = 0

\* C17: when an iteration of an executemany batch raises, the call ends by raising
\* that one error, does not return, and its connection is given back; when the
\* whole batch succeeds the call returns None and raises nothing.
C17_BatchFailure ==
    [][\A t \in Procs :
        /\ (task[t].pc = "holding" /\ task[t].op = "executemany" /\ StmtFail(t)) =>
              /\ task'[t].pc = "raised"
              /\ task'[t].err = "PostgresError"
              /\ task'[t].out = NoResult
              /\ task'[t].conn = None
              /\ checkedOut'[task[t].conn] = checkedOut[task[t].conn] - 1
        /\ (task[t].pc = "holding" /\ task[t].op = "executemany" /\ StmtOk(t)) =>
              /\ task'[t].pc = "returned"
              /\ task'[t].err = ""
              /\ task'[t].out.kind = "None"
              /\ checkedOut'[task[t].conn] = checkedOut[task[t].conn] - 1
        /\ (task[t].op = "executemany" /\ task[t].pc \in {"returned", "raised"}
            /\ task'[t].op = "executemany") =>
              task'[t].pc = task[t].pc \/ task'[t].pc \notin {"returned", "raised"}
      ]_vars

C17_Witness ==
    \E t, u \in Procs :
        /\ task[t].op = "executemany" /\ task[t].pc = "raised"
        /\ task[t].err = "PostgresError"
        /\ task[u].op = "executemany" /\ task[u].pc = "returned"
        /\ checkedOut[1] = 0

\* C19: the handle goes from unset to set only by a create_pool that completes
\* while its caller holds the initialization lock, and it then refers to the pool
\* just created; a set handle changes only by becoming unset, and only when a
\* close call completes; the lock is held across a suspension only by a call whose
\* create_pool is in progress, and the handle is unset all that time.
C19_Lifecycle ==
    [][/\ (cls_pool = None /\ cls_pool' # None) =>
              /\ cls_lock.locked
              /\ \E t \in Procs :
                    /\ task[t].pc = "creating"
                    /\ CreateOk(t)
                    /\ cls_pool' = task[t].pool
                    /\ poolState[cls_pool'] = "none"
                    /\ poolState'[cls_pool'] = "open"
       /\ (cls_pool # None /\ cls_pool' # cls_pool) =>
              /\ cls_pool' = None
              /\ \E t \in Procs : task[t].pc = "closing" /\ CloseDone(t)
       /\ cls_lock'.locked <=> (\E t \in Procs : task'[t].pc = "creating")
       /\ cls_lock'.locked => cls_pool' = None
       /\ Cardinality({t \in Procs : task'[t].pc = "creating"}) <= 1
      ]_vars

C19_Witness ==
    /\ cls_pool = None
    /\ cls_lock.locked
    /\ closeDone = {1}
    /\ poolState[1] = "closed"
    /\ \E t \in Procs : task[t].pc = "creating" /\ task[t].pool = 2

\* C20: every pool that has been constructed and is not yet closed is the pool the
\* handle refers to, so that at most one such pool exists.
C20_OneOpenPool ==
    \A p \in PoolIds : poolState[p] \in {"open", "closing"} => cls_pool = p

\* C15: when the backend returns candidate rows whose similarities are numbers,
\* vector_search returns exactly the rows with similarity >= 0.05 (0.05 itself is
\* kept), each once, in the database's order; for the similarities
\* 0.01, 0.04, 0.05, 0.20, 0.99 it returns the rows with 0.05, 0.20, 0.99.
C15_ThresholdFilter ==
    (/\ search.called
     /\ search.outcome = "rows"
     /\ \A i \in 1..Len(search.rows) : search.rows[i] # NotANumber) =>
        LET keep == {i \in 1..Len(search.rows) : search.rows[i] >= 5} IN
        /\ search.raised = ""
        /\ Len(search.ret) = Cardinality(keep)
        /\ \A j \in 1..Len(search.ret) :
              /\ search.ret[j].pos \in keep
              /\ search.ret[j].sim = search.rows[search.ret[j].pos]
        /\ \A j, k \in 1..Len(search.ret) : j < k => search.ret[j].pos < search.ret[k].pos
        /\ search.rows = <<1, 4, 5, 20, 99>> =>
              [j \in 1..Len(search.ret) |-> search.ret[j].sim] = <<5, 20, 99>>

C15_Witness ==
    /\ search.called
    /\ search.rows = <<1, 4, 5, 20, 99>>
    /\ Len(search.ret) = 3
    /\ search.ret[1].sim = 5

\* C16: on both backends, a vector_search call in which pool or client creation,
\* the database call or the threshold filter raises returns the empty sequence
\* after logging the error; nothing but the cancellation of the call leaves
\* vector_search as an exception.
C16_SearchNeverRaises ==
    /\ search.raised # "" => search.raised = "CancelledError"
    /\ (/\ search.called
        /\ \/ search.outcome \notin {"rows", "CancelledError"}
           \/ \E i \in 1..Len(search.rows) : search.rows[i] = NotANumber) =>
          /\ search.ret = <<>>
          /\ search.raised = ""
          /\ search.logged

C16_Witness ==
    /\ search.strategy = "asyncpg"
    /\ search.called
    /\ search.outcome = "ConnectionError"
    /\ search.ret = <<>>
    /\ search.logged

\* C18: row_to_dict returns the empty mapping for None; for a row it returns a
\* mapping with exactly the row's keys in which every UUID is replaced by its text
\* form, every timestamp by its ISO text, and every other value is the row's.
C18_RowToDict ==
    conv.called =>
        IF conv.row.isNone
        THEN conv.ret = <<>>
        ELSE /\ DOMAIN conv.ret = DOMAIN conv.row.cols
             /\ \A k \in DOMAIN conv.row.cols :
                   LET value == conv.row.cols[k] IN
                   /\ value.type = "uuid" =>
                         conv.ret[k] = [type |-> "str", v |-> 100 + value.v]
                   /\ value.type = "datetime" =>
                         conv.ret[k] = [type |-> "str", v |-> 200 + value.v]
                   /\ value.type \notin {"uuid", "datetime"} => conv.ret[k] = value

C18_Witness ==
    /\ conv.called
    /\ ~conv.row.isNone
    /\ DOMAIN conv.row.cols = Keys
    /\ conv.row.cols["id"].type = "uuid"
    /\ conv.row.cols["created_at"].type = "datetime"
    /\ conv.row.cols["title"].type = "str"
    /\ conv.ret["id"].type = "str"
    /\ conv.ret["created_at"].type = "str"

\* C21: whenever a query operation acquires its connection, the pool it got from
\* get_pool is open: no close call has started on it.
C21_AcquireFromOpenPool ==
    [][\A t \in Procs :
        (task[t].pc = "acquiring" /\ task'[t].pc = "holding") =>
            poolState[task[t].pool] = "open"
      ]_vars

\* C22: a get_pool call that has returned normally holds the handle of a pool that
\* create_pool has returned, never the unset value, whatever close calls ran
\* before it or run beside it.
C22_GetPoolReturnsHandle ==
    \A t \in Procs :
        (task[t].op = "get_pool" /\ task[t].pc = "returned") =>
            /\ task[t].res # None
            /\ task[t].res \in 1..created
            /\ poolState[task[t].res] # "none"

C22_Witness ==
    \E t, u \in Procs :
        /\ task[t].op = "get_pool" /\ task[t].pc = "returned" /\ task[t].res = 2
        /\ task[u].op = "close" /\ task[u].pc = "closing" /\ task[u].pool = 1
        /\ cls_pool = 2

\* C24: a get_database_mode call that raises leaves the memo unset; a call that
\* finds the memo unset, also after earlier calls have raised, reads the
\* environment and returns (and memoizes) the mode the environment selects now;
\* the memo only ever holds "asyncpg" or "supabase".
C24_ErrorNotMemoized ==
    [][get_database_mode =>
          /\ modeCall'.ret = "ValueError" => database_mode' = "None"
          /\ database_mode = "None" =>
                /\ modeCall'.inspected
                /\ modeCall'.ret =
                      IF env["DATABASE_URL"] = "value" THEN "asyncpg"
                      ELSE IF env["SUPABASE_URL"] = "value"
                              /\ env["SUPABASE_SERVICE_KEY"] = "value" THEN "supabase"
                      ELSE "ValueError"
                /\ modeCall'.ret # "ValueError" => database_mode' = modeCall'.ret
          /\ database_mode' \in {"None", "asyncpg", "supabase"}
      ]_vars

C24_Witness ==
    /\ modeCall.failed
    /\ modeCall.ret = "asyncpg"
    /\ modeCall.inspected
    /\ database_mode = "asyncpg"

\* C25: in every environment in which get_pool passes its configuration check
\* (DATABASE_URL or POSTGRES_HOST set), a get_database_mode call that resolves the
\* mode returns "asyncpg" and get_database_client returns the pooled client.
C25_SelectorAgreesWithPool ==
    [][(get_database_mode /\ database_mode = "None"
        /\ (env["DATABASE_URL"] = "value" \/ env["POSTGRES_HOST"] = "value")) =>
          /\ modeCall'.ret = "asyncpg"
          /\ get_database_client(env) = "AsyncPGClient"
      ]_vars

\* C23: at most one project has pinned = true, after any sequence or interleaving
\* of the statements of update_project and create_project_with_ai calls.
C23_SinglePinned ==
    Cardinality({p \in ProjIds : projects[p].exists /\ projects[p].pinned}) <= 1

\* C26: the version numbers recorded for a project and field start at 1, each new
\* one is one more than the highest recorded before it, and no two are equal,
\* under any interleaving of concurrent create_version calls.
C26_VersionNumbers ==
    /\ \A i \in 1..Len(versions) : versions[i].number = i
    /\ \A i, j \in 1..Len(versions) : i # j => versions[i].number # versions[j].number

\* C27: under any interleaving of add_document, update_document and
\* delete_document on one project, a document whose add returned success is in the
\* project's docs array as long as no delete of it has returned success, and it
\* carries the title of the last update of it that returned success.
C27_DocumentsKept ==
    \A d \in ledger.added \ ledger.deleted :
        \E p \in ProjIds : \E i \in 1..Len(projects[p].docs) :
            /\ projects[p].docs[i].id = d
            /\ ledger.title[d] # 0 => projects[p].docs[i].title = ledger.title[d]

\* C28: for every filter_metadata the pooled and the hosted path pass the same
\* match count, the same JSON filter object and the same source filter: with a
\* 'source' key the source filter is its value and the JSON filter is empty,
\* otherwise the JSON filter is the whole filter_metadata (empty when none is
\* given) and there is no source filter.
C28_SameArguments ==
    rpc.called =>
        LET fm == rpc.filter_metadata
            \* the source filter of the hosted call: none when the parameter is left out
            hosted_source == IF "source_filter" \in DOMAIN rpc.hosted
                             THEN rpc.hosted.source_filter ELSE "None"
        IN  /\ rpc.pooled.match_count = rpc.match_count
            /\ rpc.hosted.match_count = rpc.match_count
            /\ rpc.pooled.filter = json_dumps(rpc.hosted.filter)
            /\ rpc.pooled.source_filter = hosted_source
            /\ IF fm.given /\ "source" \in DOMAIN fm.items
               THEN /\ rpc.pooled.source_filter = fm.items["source"]
                    /\ rpc.pooled.filter = EmptyDict
               ELSE /\ rpc.pooled.source_filter = "None"
                    /\ rpc.pooled.filter = json_dumps(fm.items)

\* A search whose filter names a source and another key has been issued.
C28_Witness ==
    /\ rpc.called
    /\ rpc.filter_metadata.given
    /\ DOMAIN rpc.filter_metadata.items = {"source", "language"}
    /\ rpc.filter_metadata.items["source"] = "str"
    /\ rpc.filter_metadata.items["language"] = "tuple"
    /\ rpc.hosted.source_filter = "str"

\* C29: a restore_version call for an existing version has written, in this
\* order, a 'backup' version with the field's content before the restore, the
\* restored content to the project's field, and a 'restore' version with the
\* restored content; a call for a version that does not exist has returned a
\* failure result and written nothing.
C29_RestoreOrder ==
    \A t \in SvcTasks :
        svc[t].op = "restore_version" /\ svc[t].pc = "returned" =>
            IF svc[t].found
            THEN svc[t].log = <<[write |-> "backup", content |-> svc[t].before],
                                [write |-> "update", content |-> svc[t].content],
                                [write |-> "restore", content |-> svc[t].content]>>
            ELSE ~svc[t].ok /\ svc[t].log = <<>>

====
